---- MODULE Spec2Model ----
(***************************************************************************)
(* A model of jc-automation: the JumpCloud MCP front ends (the Slack bots  *)
(* bot/app.py and bot/appv1.py, the CLIs bot/jc-cli.py and jc.py), their   *)
(* session lifecycle, and the extraction and formatting of a search_api    *)
(* result.                                                                 *)
(*                                                                         *)
(* Python values are tagged records [t, v]; a Python str is a TLA+ string  *)
(* (TLC evaluates Len, \o, SubSeq, Head and Tail on strings).  A Python    *)
(* call that may raise is an operator returning [ok, val, exc].            *)
(***************************************************************************)
EXTENDS Integers, Sequences, FiniteSets, TLC

VARIABLES
  \* ---- the front-end pipeline (specification Spec) ----
  frontend,     \* which program runs: "appv1", "app", "jc_cli", "jc"
  admins,       \* ADMIN_USER_IDS, read once at startup
  apiKey,       \* whether JC_API_KEY is set
  query,        \* number of the query being handled (0: none yet)
  inputs,       \* per query, what the caller gave: [user, text, command, given
                \* (whether the options were given), args (the parsed namespace)]
  pc,           \* position of the handler of the current query
  exc,          \* the exception travelling up the stack, "none" when there is none
  conns,        \* every transport connection attempted: [owner, st]
  sessions,     \* every ClientSession entered: [owner, st, init]
  requests,     \* every request sent on a session: [sess, query, kind, tool, arguments]
  result,       \* the envelope call_tool returned for this query
  extractArg,   \* the envelope handed to the extractor for this query: [given, env]
  outbox,       \* everything delivered to the caller: [query, kind, text], the
                \* text that of an answer ("" for the other messages)
  outcome,      \* per finished query, how its entry point ended: [how, exc]
  \* ---- the pure functions (specifications SpecExtract, SpecFormat, SpecBound) ----
  env,          \* the result envelope given to extract
  extractOut,   \* what extract did with env
  payload,      \* the mapping given to format
  style,        \* which copy of the formatter: "slack" (appv1.py), "cli" (jc-cli.py)
  formatOut,    \* what format did with payload
  boundIn,      \* the text and the budget given to the size bounder: [text, max]
  boundOut      \* what the size bounder returned: [ran, text]

pipeVars == <<frontend, admins, apiKey, query, inputs, pc, exc, conns, sessions,
              requests, result, extractArg, outbox, outcome>>
pureVars == <<env, extractOut, payload, style, formatOut, boundIn, boundOut>>
vars == <<frontend, admins, apiKey, query, inputs, pc, exc, conns, sessions,
          requests, result, extractArg, outbox, outcome,
          env, extractOut, payload, style, formatOut, boundIn, boundOut>>

(***************************************************************************)
(* Bounds of the model.                                                    *)
(***************************************************************************)
\* longest content list of an enumerated envelope
MaxContent == 3
\* queries one chat process handles in a run
MaxQueries == 2
\* longest fields list of an enumerated row
MaxFields == 2
\* rows of a payload beyond MAX_ROWS
MaxMore == 2
\* characters of a text short of and beyond the budget of the size bounder
MaxOver == 8

(***************************************************************************)
(* Python values.                                                          *)
(***************************************************************************)
None == [t |-> "none", v |-> 0]
PyStr(s) == [t |-> "str", v |-> s]
PyInt(n) == [t |-> "int", v |-> n]
PyBool(b) == [t |-> "bool", v |-> b]
PyList(xs) == [t |-> "list", v |-> xs]
\* a dict is the sequence of its (key, value) pairs in insertion order
PyDict(ps) == [t |-> "dict", v |-> ps]
KV(k, x) == [k |-> k, v |-> x]

IsDict(x) == x.t = "dict"
IsStr(x) == x.t = "str"

\* bool(x)
Truthy(x) ==
  CASE x.t = "none" -> FALSE
    [] x.t = "bool" -> x.v
    [] x.t = "int"  -> x.v # 0
    [] x.t = "str"  -> x.v # ""
    [] x.t = "list" -> x.v # <<>>
    [] x.t = "dict" -> x.v # <<>>
    [] OTHER        -> TRUE

\* a or b
PyOr(a, b) == IF Truthy(a) THEN a ELSE b

\* whether key k is in the pair sequence ps
HasKey(ps, k) == \E i \in 1..Len(ps) : ps[i].k = k

\* dict.get(k, default) on a pair sequence
PairsGet(ps, k, default) ==
  IF HasKey(ps, k)
  THEN ps[CHOOSE i \in 1..Len(ps) : ps[i].k = k].v
  ELSE default

\* d[k] = x on a pair sequence: a key already present keeps its place and takes
\* the new value, a new key goes last
PairsSet(ps, k, x) ==
  IF HasKey(ps, k)
  THEN [i \in 1..Len(ps) |-> IF ps[i].k = k THEN KV(k, x) ELSE ps[i]]
  ELSE Append(ps, KV(k, x))

\* a returned value, and a raised exception
Ret(x) == [ok |-> TRUE, val |-> x, exc |-> "none"]
Raise(e) == [ok |-> FALSE, val |-> None, exc |-> e]

(***************************************************************************)
(* json.loads, on texts over the alphabet { } [ ] : , " space, digits and  *)
(* letters: objects, arrays, strings without escapes, non-negative         *)
(* integers, true, false, null.  A parse step yields [ok, val, pos], pos   *)
(* the index after the value.                                              *)
(***************************************************************************)
Ch(s, i) == IF i >= 1 /\ i <= Len(s) THEN SubSeq(s, i, i) ELSE ""

Digits == {"0", "1", "2", "3", "4", "5", "6", "7", "8", "9"}

DigitVal(c) ==
  CASE c = "0" -> 0 [] c = "1" -> 1 [] c = "2" -> 2 [] c = "3" -> 3
    [] c = "4" -> 4 [] c = "5" -> 5 [] c = "6" -> 6 [] c = "7" -> 7
    [] c = "8" -> 8 [] c = "9" -> 9

ParseFail == [ok |-> FALSE, val |-> None, pos |-> 0]
ParseOk(x, p) == [ok |-> TRUE, val |-> x, pos |-> p]

RECURSIVE SkipWs(_, _)
SkipWs(s, i) == IF Ch(s, i) = " " THEN SkipWs(s, i + 1) ELSE i

\* the index of the first '"' at or after i, 0 when there is none
RECURSIVE ClosingQuote(_, _)
ClosingQuote(s, i) ==
  IF i > Len(s) THEN 0
  ELSE IF Ch(s, i) = "\"" THEN i
  ELSE ClosingQuote(s, i + 1)

\* s[i] is the opening quote
ParseString(s, i) ==
  LET j == ClosingQuote(s, i + 1)
  IN IF j = 0 THEN ParseFail
     ELSE ParseOk(PyStr(SubSeq(s, i + 1, j - 1)), j + 1)

\* the digits from i on, accumulated into n
RECURSIVE ParseDigits(_, _, _)
ParseDigits(s, i, n) ==
  IF Ch(s, i) \in Digits
  THEN ParseDigits(s, i + 1, 10 * n + DigitVal(Ch(s, i)))
  ELSE ParseOk(PyInt(n), i)

\* s[i] is a digit; a leading 0 is a number of its own
ParseNumber(s, i) ==
  IF Ch(s, i) = "0" THEN ParseOk(PyInt(0), i + 1) ELSE ParseDigits(s, i, 0)

StartsWith(s, i, w) ==
  i + Len(w) - 1 <= Len(s) /\ SubSeq(s, i, i + Len(w) - 1) = w

RECURSIVE ParseValue(_, _)
RECURSIVE ParseMembers(_, _, _)
RECURSIVE ParseElements(_, _, _)

\* the members of an object from i on (s[i] starts a key), ps the pairs so far
ParseMembers(s, i, ps) ==
  IF Ch(s, i) # "\"" THEN ParseFail
  ELSE LET key == ParseString(s, i)
       IN IF ~key.ok THEN ParseFail
          ELSE LET c == SkipWs(s, key.pos)
               IN IF Ch(s, c) # ":" THEN ParseFail
                  ELSE LET x == ParseValue(s, SkipWs(s, c + 1))
                       IN IF ~x.ok THEN ParseFail
                          ELSE LET e == SkipWs(s, x.pos)
                                   qs == PairsSet(ps, key.val, x.val)
                               IN CASE Ch(s, e) = "," ->
                                         ParseMembers(s, SkipWs(s, e + 1), qs)
                                    [] Ch(s, e) = "}" -> ParseOk(PyDict(qs), e + 1)
                                    [] OTHER -> ParseFail

\* the elements of an array from i on, xs the elements so far
ParseElements(s, i, xs) ==
  LET x == ParseValue(s, i)
  IN IF ~x.ok THEN ParseFail
     ELSE LET e == SkipWs(s, x.pos)
              ys == Append(xs, x.val)
          IN CASE Ch(s, e) = "," -> ParseElements(s, SkipWs(s, e + 1), ys)
               [] Ch(s, e) = "]" -> ParseOk(PyList(ys), e + 1)
               [] OTHER -> ParseFail

ParseValue(s, i) ==
  LET c == Ch(s, i)
  IN CASE c = "{" ->
            (LET j == SkipWs(s, i + 1)
             IN IF Ch(s, j) = "}" THEN ParseOk(PyDict(<<>>), j + 1)
                ELSE ParseMembers(s, j, <<>>))
       [] c = "[" ->
            (LET j == SkipWs(s, i + 1)
             IN IF Ch(s, j) = "]" THEN ParseOk(PyList(<<>>), j + 1)
                ELSE ParseElements(s, j, <<>>))
       [] c = "\"" -> ParseString(s, i)
       [] c \in Digits -> ParseNumber(s, i)
       [] StartsWith(s, i, "null") -> ParseOk(None, i + 4)
       [] StartsWith(s, i, "true") -> ParseOk(PyBool(TRUE), i + 4)
       [] StartsWith(s, i, "false") -> ParseOk(PyBool(FALSE), i + 5)
       [] OTHER -> ParseFail

\* json.loads(s): the whole text is one value, or JSONDecodeError is raised
JsonLoads(s) ==
  LET r == ParseValue(s, SkipWs(s, 1))
  IN IF r.ok /\ SkipWs(s, r.pos) = Len(s) + 1
     THEN Ret(r.val)
     ELSE Raise("JSONDecodeError")

(***************************************************************************)
(* The result envelope (mcp CallToolResult, read by getattr with a None    *)
(* default): structuredContent, a Python value (None when absent);         *)
(* content, None when absent, or [t |-> "items", v |-> <<item, ...>>], or  *)
(* another Python value; isError.  An item is [text |-> value], None when  *)
(* the item carries no text.                                               *)
(***************************************************************************)
Items(xs) == [t |-> "items", v |-> xs]
Item(x) == [text |-> x]
Envelope(sc, c, e) == [structuredContent |-> sc, content |-> c, isError |-> e]

\* bool(content) for what an envelope's content may be
ContentTruthy(c) == IF c.t = "items" THEN c.v # <<>> ELSE Truthy(c)

\* whether "for item in content" can iterate c
Iterable(c) == c.t \in {"items", "str", "list", "dict"}

\* what "for item in content" yields: the items of a list; the characters of a
\* str, the elements of a list and the keys of a dict carry no text attribute
IterItems(c) ==
  IF c.t = "items" THEN c.v ELSE [i \in 1..Len(c.v) |-> Item(None)]

ExtractOutcome(r, n) ==
  [ok |-> r.ok, val |-> r.val, exc |-> r.exc, examined |-> n]

\* the loop over content from item i on; examined counts the items looked at
RECURSIVE ExtractScanBreaks(_, _)
ExtractScanBreaks(items, i) ==
  IF i > Len(items) THEN ExtractOutcome(Ret(None), Len(items))
  ELSE LET text_val == items[i].text
       IN IF IsStr(text_val)
          THEN LET inner == JsonLoads(text_val.v)
               IN IF inner.ok /\ IsDict(inner.val)
                  THEN ExtractOutcome(Ret(inner.val), i)
                  ELSE IF ~inner.ok
                       THEN ExtractOutcome(Ret(None), i)
                       ELSE ExtractScanBreaks(items, i + 1)
          ELSE ExtractScanBreaks(items, i + 1)

RECURSIVE ExtractScan(_, _)
ExtractScan(items, i) ==
  IF i > Len(items) THEN ExtractOutcome(Ret(None), Len(items))
  ELSE LET text_val == items[i].text
       IN IF IsStr(text_val)
          THEN LET inner == JsonLoads(text_val.v)
               IN IF inner.ok /\ IsDict(inner.val)
                  THEN ExtractOutcome(Ret(inner.val), i)
                  ELSE ExtractScan(items, i + 1)
          ELSE ExtractScan(items, i + 1)

\* step 2 of the extractor: content[].text
ExtractFromContent(r) ==
  LET content == r.content
  IN IF ~ContentTruthy(content) THEN ExtractOutcome(Ret(None), 0)
     ELSE IF ~Iterable(content) THEN ExtractOutcome(Raise("TypeError"), 0)
     ELSE ExtractScan(IterItems(content), 1)

ExtractContentFirst(r) ==
  LET c == ExtractFromContent(r)
  IN IF c.ok /\ IsDict(c.val) THEN c
     ELSE IF IsDict(r.structuredContent)
          THEN ExtractOutcome(Ret(r.structuredContent), c.examined)
          ELSE c

\* _extract_inner_json_from_search_api_result(result)
Extract(r) ==
  LET structured == r.structuredContent
  IN IF IsDict(structured) THEN ExtractOutcome(Ret(structured), 0)
     ELSE ExtractFromContent(r)

(***************************************************************************)
(* Strings: str(x), "sep".join(parts), s.strip().                          *)
(***************************************************************************)
RECURSIVE Join(_, _)
Join(parts, sep) ==
  IF parts = <<>> THEN ""
  ELSE IF Len(parts) = 1 THEN parts[1]
  ELSE parts[1] \o sep \o Join(Tail(parts), sep)

WhiteSpace == {" ", "\n", "\t"}

RECURSIVE LStrip(_)
LStrip(s) == IF Len(s) > 0 /\ Ch(s, 1) \in WhiteSpace THEN LStrip(Tail(s)) ELSE s

RECURSIVE RStrip(_)
RStrip(s) ==
  IF Len(s) > 0 /\ Ch(s, Len(s)) \in WhiteSpace
  THEN RStrip(SubSeq(s, 1, Len(s) - 1))
  ELSE s

Strip(s) == RStrip(LStrip(s))

\* repr(x) and str(x): they differ on a str only (the strings of the model hold
\* no quote, so repr puts single quotes around them)
RECURSIVE PyRepr(_)
RECURSIVE PyReprAll(_)
RECURSIVE PyReprPairs(_)
PyReprAll(xs) == [i \in 1..Len(xs) |-> PyRepr(xs[i])]
PyReprPairs(ps) == [i \in 1..Len(ps) |-> PyRepr(ps[i].k) \o ": " \o PyRepr(ps[i].v)]
PyRepr(x) ==
  CASE x.t = "none" -> "None"
    [] x.t = "bool" -> IF x.v THEN "True" ELSE "False"
    [] x.t = "int"  -> ToString(x.v)
    [] x.t = "str"  -> "'" \o x.v \o "'"
    [] x.t = "list" -> "[" \o Join(PyReprAll(x.v), ", ") \o "]"
    [] x.t = "dict" -> "{" \o Join(PyReprPairs(x.v), ", ") \o "}"

\* str(x), what an f-string puts for {x}
Str(x) == IF IsStr(x) THEN x.v ELSE PyRepr(x)

Min(a, b) == IF a <= b THEN a ELSE b

(***************************************************************************)
(* The formatter, _format_search_api_results, in its two copies: style     *)
(* "slack" is bot/appv1.py, style "cli" is bot/jc-cli.py.  The characters  *)
(* outside ASCII of appv1.py are written  @ for the bullet, ~ for the en   *)
(* dash and ^ for the ellipsis, and its backquote is written %, one        *)
(* character each as in the source.                                        *)
(***************************************************************************)
MAX_ROWS == 20

K(s) == PyStr(s)

\* x.get(key, default): AttributeError unless x is a dict
Get(x, key, default) ==
  IF IsDict(x) THEN Ret(PairsGet(x.v, K(key), default)) ELSE Raise("AttributeError")

\* what "for f in fields_list" iterates, for a truthy fields_list
IterValues(x) ==
  CASE x.t = "list" -> x.v
    [] x.t = "str"  -> [i \in 1..Len(x.v) |-> PyStr(Ch(x.v, i))]
    [] x.t = "dict" -> [i \in 1..Len(x.v) |-> x.v[i].k]

Hashable(x) == x.t \notin {"list", "dict"}

\* a field map in which the first entry of a name wins
RECURSIVE BuildFieldMapFirstWins(_, _, _)
BuildFieldMapFirstWins(fs, i, fm) ==
  IF i > Len(fs) THEN Ret(PyDict(fm))
  ELSE LET f == fs[i]
       IN IF ~IsDict(f) THEN Raise("AttributeError")
          ELSE LET fname == PairsGet(f.v, K("field"), None)
                   fval == PairsGet(f.v, K("value"), None)
               IN IF ~Truthy(fname) \/ HasKey(fm, fname)
                  THEN BuildFieldMapFirstWins(fs, i + 1, fm)
                  ELSE IF ~Hashable(fname) THEN Raise("TypeError")
                  ELSE BuildFieldMapFirstWins(fs, i + 1, PairsSet(fm, fname, fval))

\* the loop turning a row's fields into field_map, from field i on
RECURSIVE BuildFieldMap(_, _, _)
BuildFieldMap(fs, i, fm) ==
  IF i > Len(fs) THEN Ret(PyDict(fm))
  ELSE LET f == fs[i]
       IN IF ~IsDict(f) THEN Raise("AttributeError")
          ELSE LET fname == PairsGet(f.v, K("field"), None)
                   fval == PairsGet(f.v, K("value"), None)
               IN IF ~Truthy(fname) THEN BuildFieldMap(fs, i + 1, fm)
                  ELSE IF ~Hashable(fname) THEN Raise("TypeError")
                  ELSE BuildFieldMap(fs, i + 1, PairsSet(fm, fname, fval))

\* row.get("fields", []) or [], then the field_map of the row
FieldMap(row) ==
  IF ~IsDict(row) THEN Raise("AttributeError")
  ELSE LET fields_list == PyOr(PairsGet(row.v, K("fields"), PyList(<<>>)), PyList(<<>>))
       IN IF fields_list.t \notin {"list", "str", "dict"} THEN Raise("TypeError")
          ELSE BuildFieldMap(IterValues(fields_list), 1, <<>>)

\* the parts of the identity line that are present
IdentityParts(sty, username, pretty_name, email, uid) ==
  (IF Truthy(username)
   THEN <<IF sty = "slack" THEN "%" \o Str(username) \o "%" ELSE Str(username)>>
   ELSE <<>>)
  \o (IF pretty_name # "" THEN <<pretty_name>> ELSE <<>>)
  \o (IF Truthy(email) THEN <<"<" \o Str(email) \o ">">> ELSE <<>>)
  \o (IF Truthy(uid)
      THEN <<IF sty = "slack" THEN "_id: %" \o Str(uid) \o "%_" ELSE "id=" \o Str(uid)>>
      ELSE <<>>)

\* the generic line's parts, one per entry of field_map, in its order
GenericParts(sty, fm) ==
  [i \in 1..Len(fm) |->
     IF sty = "slack"
     THEN "*" \o Str(fm[i].k) \o "*: %" \o Str(fm[i].v) \o "%"
     ELSE Str(fm[i].k) \o "=" \o Str(fm[i].v)]

\* the identity line for every row that carries one of the three keys
IsIdentityRowByPresence(fm) ==
  \/ HasKey(fm, K("user.username"))
  \/ HasKey(fm, K("user.email"))
  \/ HasKey(fm, K("user.id"))

\* which renderer a row gets: the identity line when username, email or uid is truthy
IsIdentityRow(fm) ==
  \/ Truthy(PairsGet(fm, K("user.username"), None))
  \/ Truthy(PairsGet(fm, K("user.email"), None))
  \/ Truthy(PairsGet(fm, K("user.id"), None))

\* (fname + " " + lname).strip(): str + str only
PrettyName(fname, lname) ==
  IF ~IsStr(fname) \/ ~IsStr(lname) THEN Raise("TypeError")
  ELSE Ret(PyStr(Strip(fname.v \o " " \o lname.v)))

\* the line of one row
RenderRow(sty, row) ==
  LET m == FieldMap(row)
  IN IF ~m.ok THEN m
     ELSE LET fm == m.val.v
              fname == PairsGet(fm, K("user.first_name"), PyStr(""))
              lname == PairsGet(fm, K("user.last_name"), PyStr(""))
              email == PairsGet(fm, K("user.email"), None)
              username == PairsGet(fm, K("user.username"), None)
              uid == PairsGet(fm, K("user.id"), None)
          IN IF IsIdentityRow(fm)
             THEN LET pn == PrettyName(fname, lname)
                  IN IF ~pn.ok THEN pn
                     ELSE LET parts == IdentityParts(sty, username, pn.val.v, email, uid)
                          IN Ret(PyStr(IF sty = "slack"
                                       THEN "@ " \o Join(parts, " ~ ")
                                       ELSE " - " \o Join(parts, " | ")))
             ELSE Ret(PyStr((IF sty = "slack" THEN "@ " ELSE " - ")
                            \o Join(GenericParts(sty, fm), "; ")))

\* the loop over results[:MAX_ROWS] from row i on, lines the lines so far
RECURSIVE RenderRows(_, _, _, _)
RenderRows(sty, rows, i, lines) ==
  IF i > Len(rows) THEN [ok |-> TRUE, val |-> lines, exc |-> "none"]
  ELSE LET r == RenderRow(sty, rows[i])
       IN IF ~r.ok THEN [ok |-> FALSE, val |-> <<>>, exc |-> r.exc]
          ELSE RenderRows(sty, rows, i + 1, Append(lines, r.val.v))

\* "\n".join(lines): TypeError when an item of lines is not a str
JoinLines(lines) ==
  IF \E i \in 1..Len(lines) : ~IsStr(lines[i]) THEN Raise("TypeError")
  ELSE Ret(PyStr(Join([i \in 1..Len(lines) |-> lines[i].v], "\n")))

\* the lines before the results section: explanation, rationale, query time
HeadLines(sty, explanation, rationale, qt) ==
  (IF Truthy(explanation)
   THEN IF sty = "slack"
        THEN <<PyStr("*Explanation:*\n" \o Str(explanation) \o "\n")>>
        ELSE <<PyStr("Explanation:"), explanation, PyStr("")>>
   ELSE <<>>)
  \o (IF Truthy(rationale)
      THEN IF sty = "slack"
           THEN <<PyStr("*Why this query:* " \o Str(rationale) \o "\n")>>
           ELSE <<PyStr("Why this query: " \o Str(rationale)), PyStr("")>>
      ELSE <<>>)
  \o (IF qt # None
      THEN IF sty = "slack"
           THEN <<PyStr("_Query time_: %" \o Str(qt) \o "%\n")>>
           ELSE <<PyStr("Query time: " \o Str(qt)), PyStr("")>>
      ELSE <<>>)

NoResultsLine(sty) ==
  PyStr(IF sty = "slack" THEN "_No results found._" ELSE "No results found.")

ResultsHeader(sty, n) ==
  PyStr(IF sty = "slack"
        THEN "*Results* (showing up to " \o ToString(Min(n, 20)) \o "):"
        ELSE "Results (showing up to " \o ToString(Min(n, 20)) \o "):")

MoreNote(sty, n) ==
  PyStr(IF sty = "slack"
        THEN "\n_^ plus " \o ToString(n) \o " more results_"
        ELSE "... plus " \o ToString(n) \o " more")

\* every row, whatever their number
FirstRowsUncapped(results) ==
  IF results.t = "list" THEN results.v
  ELSE [i \in 1..Len(results.v) |-> PyStr(Ch(results.v, i))]

\* results[:MAX_ROWS] of a list or a str
FirstRows(results) ==
  IF results.t = "list"
  THEN SubSeq(results.v, 1, Min(Len(results.v), MAX_ROWS))
  ELSE [i \in 1..Min(Len(results.v), MAX_ROWS) |-> PyStr(Ch(results.v, i))]

\* the results section for a truthy results; len() and the slice raise TypeError
\* on what is no list and no str
ResultsSection(sty, results, head) ==
  IF results.t \notin {"list", "str"} THEN Raise("TypeError")
  ELSE LET n == Len(results.v)
           rows == RenderRows(sty, FirstRows(results), 1, <<>>)
       IN IF ~rows.ok THEN Raise(rows.exc)
          ELSE JoinLines(head \o <<ResultsHeader(sty, n)>>
                         \o [i \in 1..Len(rows.val) |-> PyStr(rows.val[i])]
                         \o (IF n > MAX_ROWS THEN <<MoreNote(sty, n - MAX_ROWS)>>
                             ELSE <<>>))

\* a formatter that goes on to the results section when there are no results
FormatListsAlways(sty, inner) ==
  LET explanation == PairsGet(inner.v, K("explanation"), None)
      rationale == PairsGet(inner.v, K("rationale"), None)
      query_result == PyOr(PairsGet(inner.v, K("query_result"), PyDict(<<>>)),
                           PyDict(<<>>))
  IN IF ~IsDict(query_result) THEN Raise("AttributeError")
     ELSE LET metadata == PyOr(PairsGet(query_result.v, K("metadata"), PyDict(<<>>)),
                               PyDict(<<>>))
              results == PyOr(PairsGet(query_result.v, K("results"), PyList(<<>>)),
                              PyList(<<>>))
          IN IF ~IsDict(metadata) THEN Raise("AttributeError")
             ELSE ResultsSection(sty, results,
                                 HeadLines(sty, explanation, rationale,
                                           PairsGet(metadata.v, K("queryTime"), None)))

\* _format_search_api_results(inner), inner a dict
Format(sty, inner) ==
  LET explanation == PairsGet(inner.v, K("explanation"), None)
      rationale == PairsGet(inner.v, K("rationale"), None)
      query_result == PyOr(PairsGet(inner.v, K("query_result"), PyDict(<<>>)),
                           PyDict(<<>>))
  IN IF ~IsDict(query_result) THEN Raise("AttributeError")
     ELSE LET metadata == PyOr(PairsGet(query_result.v, K("metadata"), PyDict(<<>>)),
                               PyDict(<<>>))
              results == PyOr(PairsGet(query_result.v, K("results"), PyList(<<>>)),
                              PyList(<<>>))
          IN IF ~IsDict(metadata) THEN Raise("AttributeError")
             ELSE LET qt == PairsGet(metadata.v, K("queryTime"), None)
                      head == HeadLines(sty, explanation, rationale, qt)
                  IN IF ~Truthy(results)
                     THEN JoinLines(Append(head, NoResultsLine(sty)))
                     ELSE ResultsSection(sty, results, head)

(***************************************************************************)
(* The size bounder of app.py: the truncation of the text handle_jc_command *)
(* puts into its answer.                                                    *)
(***************************************************************************)
MAX_LEN == 2800

TruncationMarker == "\n... (truncated)"

\* a bounder that cuts a text that just fits
BoundInclusive(raw_json, max_len) ==
  IF Len(raw_json) >= max_len
  THEN SubSeq(raw_json, 1, max_len) \o TruncationMarker
  ELSE raw_json

\* if len(raw_json) > MAX_LEN: raw_json[:MAX_LEN] + marker, else raw_json
Bound(raw_json, max_len) ==
  IF Len(raw_json) > max_len
  THEN SubSeq(raw_json, 1, max_len) \o TruncationMarker
  ELSE raw_json

\* s n times over
RECURSIVE Rep(_, _)
Rep(s, n) ==
  IF n = 0 THEN ""
  ELSE IF n % 2 = 0 THEN Rep(s \o s, n \div 2)
  ELSE s \o Rep(s, n - 1)

\* a text of n characters
Pattern(n) == SubSeq(Rep("0123456789", (n \div 10) + 1), 1, n)

(***************************************************************************)
(* The inputs of the pure functions.                                       *)
(***************************************************************************)
SeqsUpTo(S, n) == UNION {[1..k -> S] : k \in 0..n}

\* a key the JSON object does not carry
Absent == [t |-> "absent", v |-> 0]

RECURSIVE Present(_)
Present(ps) ==
  IF ps = <<>> THEN <<>>
  ELSE (IF Head(ps).v = Absent THEN <<>> ELSE <<Head(ps)>>) \o Present(Tail(ps))

\* the dict of the pairs whose value is not Absent
MkDict(ps) == PyDict(Present(ps))

\* the texts a content item may carry: not JSON, JSON that is no object, and
\* two JSON objects
TextA == "{\"explanation\":\"x\",\"query_result\":{\"results\":[]}}"
TextB == "{\"rationale\":\"r\"}"
Texts == {"oops", "[1]", TextA, TextB}

ItemVals == {Item(None), Item(PyInt(3))} \cup {Item(PyStr(t)) : t \in Texts}

ContentVals ==
  {None, PyInt(0), PyInt(5), PyStr("ab")}
    \cup {Items(xs) : xs \in SeqsUpTo(ItemVals, MaxContent)}

StructuredVals ==
  {None, PyList(<<>>), PyStr("{}"), PyDict(<<>>),
   PyDict(<<KV(K("explanation"), PyStr("s"))>>)}

Envelopes ==
  {Envelope(sc, c, e) : sc \in StructuredVals, c \in ContentVals, e \in BOOLEAN}

ExplanationVals == {Absent, None, PyStr(""), PyStr("x")}
RationaleVals == {Absent, None, PyStr("r")}
MetadataVals ==
  {Absent, None, PyDict(<<>>)}
    \cup {PyDict(<<KV(K("queryTime"), qt)>>) : qt \in {None, PyInt(0), PyInt(12)}}

FieldNames ==
  {Absent, PyStr(""), PyStr("user.username"), PyStr("user.email"), PyStr("user.id"),
   PyStr("user.first_name"), PyStr("user.last_name"), PyStr("device.name")}
FieldValues == {Absent, None, PyStr(""), PyStr("ak")}
FieldVals ==
  {MkDict(<<KV(K("field"), n), KV(K("value"), x)>>) : n \in FieldNames, x \in FieldValues}

Row(fields) == MkDict(<<KV(K("fields"), fields), KV(K("itemnum"), PyInt(1))>>)
Field(n, x) == PyDict(<<KV(K("field"), PyStr(n)), KV(K("value"), x)>>)

Rows ==
  {Row(fl) : fl \in {Absent, None} \cup {PyList(fs) : fs \in SeqsUpTo(FieldVals, MaxFields)}}

UserRow == Row(PyList(<<Field("user.username", PyStr("ak")),
                        Field("user.email", PyStr("a@x.com"))>>))
GenericRow == Row(PyList(<<Field("device.name", PyStr("laptop1"))>>))

ShapeResults ==
  {Absent, None, PyList(<<>>), PyList(<<UserRow>>), PyList(<<GenericRow, UserRow>>)}

QueryResultVals ==
  {Absent, None, PyDict(<<>>)}
    \cup {MkDict(<<KV(K("metadata"), m), KV(K("results"), r)>>) :
            m \in MetadataVals, r \in ShapeResults}

\* payloads that vary the optional sections
ShapePayloads ==
  {MkDict(<<KV(K("explanation"), e), KV(K("rationale"), ra), KV(K("query_result"), q)>>) :
     e \in ExplanationVals, ra \in RationaleVals, q \in QueryResultVals}

\* payloads of one row that vary the row
RowPayloads ==
  {PyDict(<<KV(K("query_result"), PyDict(<<KV(K("results"), PyList(<<r>>))>>))>>) :
     r \in Rows}

\* payloads of n rows that differ from one another, n up to beyond MAX_ROWS
NumberedRow(i) == Row(PyList(<<Field("device.name", PyStr("d" \o ToString(i)))>>))
LongPayloads ==
  {PyDict(<<KV(K("explanation"), PyStr("x")),
            KV(K("query_result"),
               PyDict(<<KV(K("results"), PyList([i \in 1..n |-> NumberedRow(i)]))>>))>>) :
     n \in 1..(MAX_ROWS + MaxMore)}

\* payloads of one row of three fields in which a field name comes back, the
\* values telling the occurrences apart
RepeatedRows ==
  {Row(PyList([i \in 1..3 |-> Field(nm[i], PyStr("v" \o ToString(i)))])) :
     nm \in [1..3 -> {"device.name", "device.os"}]}
RepeatPayloads ==
  {PyDict(<<KV(K("query_result"), PyDict(<<KV(K("results"), PyList(<<r>>))>>))>>) :
     r \in RepeatedRows}

Payloads == ShapePayloads \cup RowPayloads \cup LongPayloads \cup RepeatPayloads

Styles == {"slack", "cli"}

ExtractNotRun == ExtractOutcome(Raise("not run"), 0)
FormatNotRun == Raise("not run")
IdleEnvelope == Envelope(None, None, FALSE)
BoundNotRun == [ran |-> FALSE, text |-> ""]
NoBoundIn == [text |-> "", max |-> MAX_LEN]

(***************************************************************************)
(* The pure functions applied to enumerated inputs.                        *)
(***************************************************************************)
PipeIdle ==
  /\ frontend = "none" /\ admins = {} /\ apiKey = TRUE
  /\ query = 0 /\ inputs = <<>> /\ pc = "idle" /\ exc = "none"
  /\ conns = <<>> /\ sessions = <<>> /\ requests = <<>>
  /\ result = IdleEnvelope
  /\ extractArg = [given |-> FALSE, env |-> IdleEnvelope]
  /\ outbox = <<>> /\ outcome = <<>>

PureIdle ==
  /\ env = IdleEnvelope /\ extractOut = ExtractNotRun
  /\ payload = PyDict(<<>>) /\ style = "slack" /\ formatOut = FormatNotRun
  /\ boundIn = NoBoundIn /\ boundOut = BoundNotRun

ExtractInit ==
  /\ PipeIdle
  /\ env \in Envelopes /\ extractOut = ExtractNotRun
  /\ payload = PyDict(<<>>) /\ style = "slack" /\ formatOut = FormatNotRun
  /\ boundIn = NoBoundIn /\ boundOut = BoundNotRun

ApplyExtract ==
  /\ extractOut = ExtractNotRun
  /\ extractOut' = Extract(env)
  /\ UNCHANGED <<pipeVars, env, payload, style, formatOut, boundIn, boundOut>>

ExtractNext == ApplyExtract

SpecExtract == ExtractInit /\ [][ExtractNext]_vars

FormatInit ==
  /\ PipeIdle
  /\ env = IdleEnvelope /\ extractOut = ExtractNotRun
  /\ payload \in Payloads /\ style \in Styles /\ formatOut = FormatNotRun
  /\ boundIn = NoBoundIn /\ boundOut = BoundNotRun

ApplyFormat ==
  /\ formatOut = FormatNotRun
  /\ formatOut' = Format(style, payload)
  /\ UNCHANGED <<pipeVars, env, extractOut, payload, style, boundIn, boundOut>>

FormatNext == ApplyFormat

SpecFormat == FormatInit /\ [][FormatNext]_vars

\* the budgets: the one of app.py and the one of a short text
BoundBudgets == {10, MAX_LEN}

\* texts of every length around the budgets, each character telling its place
BoundTexts ==
  {Pattern(n) : n \in 0..(10 + MaxOver)}
    \cup {Pattern(n) : n \in (MAX_LEN - MaxOver)..(MAX_LEN + MaxOver)}

BoundInit ==
  /\ PipeIdle
  /\ env = IdleEnvelope /\ extractOut = ExtractNotRun
  /\ payload = PyDict(<<>>) /\ style = "slack" /\ formatOut = FormatNotRun
  /\ boundIn \in [text : BoundTexts, max : BoundBudgets]
  /\ boundOut = BoundNotRun

ApplyBound ==
  /\ ~boundOut.ran
  /\ boundOut' = [ran |-> TRUE, text |-> Bound(boundIn.text, boundIn.max)]
  /\ UNCHANGED <<pipeVars, env, extractOut, payload, style, formatOut, boundIn>>

BoundNext == ApplyBound

SpecBound == BoundInit /\ [][BoundNext]_vars

ExtractRan == extractOut # ExtractNotRun
FormatRan == formatOut # FormatNotRun

(***************************************************************************)
(* The front ends.  One query runs the synchronous start of its handler,   *)
(* then the invoker (with_session in jc.py, _mcp_search_api in the bots    *)
(* and jc-cli.py) one await at a time, then the rest of the handler.       *)
(*                                                                         *)
(* pc: "idle" (no query running), "open" (entering streamablehttp_client), *)
(* "enter" (entering ClientSession), "init" (awaiting initialize), "call"  *)
(* (awaiting the request), "exit_session" and "exit_transport" (the two    *)
(* __aexit__), "invoked" (asyncio.run has returned or raised), "exited"    *)
(* (the process of a CLI has ended).                                       *)
(***************************************************************************)
FrontEnds == {"appv1", "app", "jc_cli", "jc"}
ChatFrontEnds == {"appv1", "app"}
CliFrontEnds == {"jc_cli", "jc"}

\* the Slack user ids of a command; "" is a body without user_id
UserIds == {"", "U1", "U2"}
\* the values of ADMIN_USER_IDS
AdminSets == {{}, {"U1"}}
\* the text of a command
QueryTexts == {"", " ", "show users"}

\* the sub-commands of jc.py
JcCommands ==
  {"tools", "admins", "users", "user-get", "user-groups", "user-group-members",
   "apps", "app-get", "devices", "device-get", "device-groups",
   "device-group-members", "commands", "command-get", "command-devices",
   "command-device-groups", "command-results", "commandresults", "policies",
   "policy-get", "software", "di-events", "search-api"}

\* the remote tool each sub-command calls
ToolOf(cmd) ==
  CASE cmd = "admins" -> "admins_list"
    [] cmd = "users" -> "users_list"
    [] cmd = "user-get" -> "user_get"
    [] cmd = "user-groups" -> "user_groups_list"
    [] cmd = "user-group-members" -> "user_group_membership"
    [] cmd = "apps" -> "applications_list"
    [] cmd = "app-get" -> "application_get"
    [] cmd = "devices" -> "devices_list"
    [] cmd = "device-get" -> "device_get"
    [] cmd = "device-groups" -> "device_groups_list"
    [] cmd = "device-group-members" -> "device_group_membership"
    [] cmd = "commands" -> "commands_list"
    [] cmd = "command-get" -> "command_get"
    [] cmd = "command-devices" -> "command_devices_list"
    [] cmd = "command-device-groups" -> "command_device_groups_list"
    [] cmd = "command-results" -> "command_result_list"
    [] cmd = "commandresults" -> "commandresults_list"
    [] cmd = "policies" -> "policies_list"
    [] cmd = "policy-get" -> "policy_get"
    [] cmd = "software" -> "softwareapp_list"
    [] cmd = "di-events" -> "di_events_get"
    [] cmd = "search-api" -> "search_api"

\* the request a sub-command sends on its session: cmd_tools lists the tools,
\* every other command calls one tool
RequestOf(cmd) ==
  IF cmd = "tools"
  THEN [kind |-> "list_tools", tool |-> ""]
  ELSE [kind |-> "call_tool", tool |-> ToolOf(cmd)]

\* what build_parser declares for each sub-command: the options in the order
\* declared, each with its default; Required for what the caller must give
Required == [t |-> "required", v |-> 0]
Opt(dest, default) == KV(K(dest), default)
Paging == <<Opt("limit", PyInt(10)), Opt("skip", PyInt(0))>>
ParserOptions(cmd) ==
  CASE cmd = "tools" -> <<>>
    [] cmd \in {"admins", "apps", "devices", "policies"} ->
         Paging \o <<Opt("search", PyStr(""))>>
    [] cmd = "users" -> Paging \o <<Opt("searchTerm", PyStr(""))>>
    [] cmd \in {"user-groups", "device-groups"} ->
         Paging \o <<Opt("search", PyStr("")), Opt("disabled", PyBool(FALSE))>>
    [] cmd \in {"user-group-members", "device-group-members"} ->
         <<Opt("group_id", Required)>> \o Paging
    [] cmd \in {"user-get", "app-get", "device-get", "command-get", "policy-get"} ->
         <<Opt("id", Required)>>
    [] cmd \in {"commands", "commandresults", "software"} -> Paging
    [] cmd \in {"command-devices", "command-device-groups", "command-results"} ->
         <<Opt("id", Required)>> \o Paging
    [] cmd = "di-events" ->
         <<Opt("service", PyStr("all")), Opt("event_type", PyStr("")),
           Opt("initiator_id", PyStr("")), Opt("query", PyStr("")),
           Opt("exact_match", PyStr("")), Opt("start_time", PyStr("7d")),
           Opt("limit", PyInt(50))>>
    [] cmd = "search-api" -> <<Opt("query", Required)>>

\* a value the caller gives for an option, of the option's type and not its default
GivenValue(default) ==
  CASE default.t = "int" -> PyInt(default.v + 5)
    [] default.t = "bool" -> PyBool(TRUE)
    [] OTHER -> PyStr("ak")

\* parser.parse_args(): the namespace, an option the caller left out at its
\* default; text is the query of search-api
ParseArgs(cmd, given, text) ==
  [i \in 1..Len(ParserOptions(cmd)) |->
     LET o == ParserOptions(cmd)[i]
     IN KV(o.k, IF cmd = "search-api" THEN PyStr(text)
                ELSE IF given \/ o.v = Required THEN GivenValue(o.v)
                ELSE o.v)]

\* args.dest, and "args.dest or ''"
Arg(args, dest) == KV(K(dest), PairsGet(args, K(dest), None))
ArgOrEmpty(args, dest) == KV(K(dest), PyOr(PairsGet(args, K(dest), None), PyStr("")))

\* the arguments mapping each cmd_* builds from its namespace
CatalogArguments(cmd, args) ==
  CASE cmd = "tools" -> <<>>
    [] cmd \in {"admins", "apps", "devices", "policies"} ->
         <<Arg(args, "limit"), Arg(args, "skip"), ArgOrEmpty(args, "search")>>
    [] cmd = "users" ->
         <<Arg(args, "limit"), Arg(args, "skip"), ArgOrEmpty(args, "searchTerm")>>
    [] cmd \in {"user-groups", "device-groups"} ->
         <<Arg(args, "limit"), Arg(args, "skip"), ArgOrEmpty(args, "search"),
           Arg(args, "disabled")>>
    [] cmd \in {"user-group-members", "device-group-members"} ->
         <<Arg(args, "group_id"), Arg(args, "limit"), Arg(args, "skip")>>
    [] cmd \in {"user-get", "app-get", "device-get", "command-get", "policy-get"} ->
         <<Arg(args, "id")>>
    [] cmd \in {"commands", "commandresults", "software"} ->
         <<Arg(args, "limit"), Arg(args, "skip")>>
    [] cmd \in {"command-devices", "command-device-groups", "command-results"} ->
         <<Arg(args, "id"), Arg(args, "limit"), Arg(args, "skip")>>
    [] cmd = "di-events" ->
         <<Arg(args, "limit"), Arg(args, "service"), ArgOrEmpty(args, "event_type"),
           ArgOrEmpty(args, "initiator_id"), ArgOrEmpty(args, "query"),
           ArgOrEmpty(args, "exact_match"), Arg(args, "start_time")>>
    [] cmd = "search-api" -> <<Arg(args, "query")>>

\* arguments that leave out what is empty
ArgumentsOmitEmpty(cmd, args) ==
  SelectSeq(CatalogArguments(cmd, args), LAMBDA kv : Truthy(kv.v))

\* arguments=... of the request of a command
ArgumentsOf(cmd, args) == CatalogArguments(cmd, args)

\* a user row whose user.first_name is null
TextNullName == "{\"query_result\":{\"results\":[{\"fields\":[{\"field\":\"user.email\",\"value\":\"a\"},{\"field\":\"user.first_name\",\"value\":null}]}]}}"

\* a payload with a long explanation, and a long text that is no JSON
LongPayload == PyDict(<<KV(K("explanation"), PyStr(Pattern(MAX_LEN)))>>)
LongText == "oops" \o Pattern(MAX_LEN)

\* the envelopes the remote answers a call with
PipeEnvelopes ==
  {Envelope(sc, Items(<<Item(PyStr(t))>>), e) :
     sc \in {None, PyDict(<<KV(K("explanation"), PyStr("s"))>>)},
     t \in {"oops", TextA, TextNullName},
     e \in BOOLEAN}
    \cup {Envelope(LongPayload, Items(<<Item(PyStr("oops"))>>), FALSE),
          Envelope(None, Items(<<Item(PyStr(LongText))>>), FALSE)}

\* json.dumps(structured, indent=2) and result.model_dump_json(indent=2): the
\* serializers are the library's; of their text the model keeps that it carries
\* every value of what is serialized, not the layout
JsonDumps(x) == PyRepr(x)
ModelDumpJson(r) ==
  "{content: ["
    \o Join([i \in 1..Len(IterItems(r.content)) |->
               "{type: text, text: " \o PyRepr(IterItems(r.content)[i].text) \o "}"], ", ")
    \o "], structuredContent: " \o PyRepr(r.structuredContent)
    \o ", isError: " \o (IF r.isError THEN "true" ELSE "false") \o "}"

IsAdminAnyone(slack_user_id) == TRUE

\* is_admin(slack_user_id)
IsAdmin(slack_user_id) == slack_user_id \in admins

\* the answer around a formatted text
AnswerText(sty, user_query, formatted) ==
  IF sty = "slack" THEN "*Query:* %" \o user_query \o "%\n\n" \o formatted
  ELSE "Query: " \o user_query \o "\n\n" \o formatted

\* the answer around the raw dump, which appv1.py cuts at 2700 characters
FallbackText(sty, user_query, raw) ==
  IF sty = "slack"
  THEN "*Query:* %" \o user_query \o "%\n"
         \o "Could not parse structured search_api result, showing raw data:\n"
         \o "%%%json\n" \o SubSeq(raw, 1, Min(Len(raw), 2700)) \o "\n%%%"
  ELSE "Query: " \o user_query \o "\n\nRaw search_api result:\n" \o raw

\* the answer of app.py around the text mcp_search_api_sync returned
AppAnswerText(user_query, raw_json) ==
  "*Query:* %" \o user_query \o "%\n" \o "*search_api result:*\n"
    \o "%%%json\n" \o Bound(raw_json, MAX_LEN) \o "\n%%%"

\* what mcp_search_api_sync of app.py returns for the result
AppRawJson(r) ==
  IF r.structuredContent # None THEN JsonDumps(r.structuredContent)
  ELSE ModelDumpJson(r)

\* the message of a formatted payload, or the exception format raised
Formatted(sty, user_query, f) ==
  IF f.ok THEN [ok |-> TRUE, kind |-> "answer", exc |-> "none",
                text |-> AnswerText(sty, user_query, f.val.v)]
  ELSE [ok |-> FALSE, kind |-> "none", exc |-> f.exc, text |-> ""]

\* the message for what the extractor gave: the raw-dump fallback for None
MessageOf(sty, user_query, r, inner) ==
  IF ~inner.ok THEN [ok |-> FALSE, kind |-> "none", exc |-> inner.exc, text |-> ""]
  ELSE IF inner.val = None
  THEN [ok |-> TRUE, kind |-> "fallback", exc |-> "none",
        text |-> FallbackText(sty, user_query, ModelDumpJson(r))]
  ELSE Formatted(sty, user_query, Format(sty, inner.val))

\* format_search_api_slack_message (style "slack") and format_for_cli (style
\* "cli"): the message the result gives, or the exception raised
FrontMessage(sty, user_query, r) == MessageOf(sty, user_query, r, Extract(r))

Cmd == inputs[query].command
EndPc == IF frontend \in ChatFrontEnds THEN "idle" ELSE "exited"
Said(box, q, kind) == Append(box, [query |-> q, kind |-> kind, text |-> ""])
SaidText(box, q, kind, text) == Append(box, [query |-> q, kind |-> kind, text |-> text])
UserQuery == inputs[query].text
Ended(how, e) == Append(outcome, [how |-> how, exc |-> e])
NoExtract == [given |-> FALSE, env |-> IdleEnvelope]

\* a process-wide session, entered once and shared by every query
PooledSession == Min(1, Len(sessions))

\* the session the invocation holds: the one its own "async with" entered
CurrentSession == Len(sessions)

UnwindLeaks(p) == "invoked"

\* where an exception raised at position p goes: through the __aexit__ of every
\* "async with" already entered
Unwind(p) ==
  CASE p = "open" -> "invoked"
    [] p = "enter" -> "exit_transport"
    [] p \in {"init", "call"} -> "exit_session"

Init ==
  /\ frontend \in FrontEnds
  /\ admins \in (IF frontend \in ChatFrontEnds THEN AdminSets ELSE {{}})
  /\ apiKey \in (IF frontend \in ChatFrontEnds THEN {TRUE} ELSE BOOLEAN)
  /\ query = 0 /\ inputs = <<>> /\ pc = "idle" /\ exc = "none"
  /\ conns = <<>> /\ sessions = <<>> /\ requests = <<>>
  /\ result = IdleEnvelope /\ extractArg = NoExtract
  /\ outbox = <<>> /\ outcome = <<>>
  /\ PureIdle

\* handle_jc_command up to the call of mcp_search_api_sync
ChatCommand(user_id, text) ==
  /\ frontend \in ChatFrontEnds /\ pc = "idle" /\ query < MaxQueries
  /\ query' = query + 1
  /\ inputs' = Append(inputs, [user |-> user_id, text |-> Strip(text),
                                command |-> "search-api", given |-> TRUE,
                                args |-> ParseArgs("search-api", TRUE, Strip(text))])
  /\ result' = IdleEnvelope /\ extractArg' = NoExtract
  /\ IF user_id = "" \/ ~IsAdmin(user_id)
     THEN /\ outbox' = Said(outbox, query + 1, "denial")
          /\ outcome' = Ended("returned", "none")
          /\ pc' = "idle"
     ELSE IF Strip(text) = ""
     THEN /\ outbox' = Said(outbox, query + 1, "usage")
          /\ outcome' = Ended("returned", "none")
          /\ pc' = "idle"
     ELSE /\ outbox' = IF frontend = "appv1"
                       THEN Said(outbox, query + 1, "working")
                       ELSE outbox
          /\ pc' = "open"
          /\ UNCHANGED outcome
  /\ UNCHANGED <<frontend, admins, apiKey, exc, conns, sessions, requests, pureVars>>

\* main of jc-cli.py up to asyncio.run: the query, joined from the arguments or
\* read at the prompt and stripped, then require_env
JcCliMain(text, prompted) ==
  /\ frontend = "jc_cli" /\ pc = "idle" /\ query = 0
  /\ query' = 1
  /\ inputs' = Append(inputs, [user |-> "",
                                text |-> IF prompted THEN Strip(text) ELSE text,
                                command |-> "search-api", given |-> TRUE,
                                args |-> ParseArgs("search-api", TRUE,
                                                   IF prompted THEN Strip(text) ELSE text)])
  /\ IF prompted /\ Strip(text) = ""
     THEN /\ outbox' = Said(outbox, 1, "no_query")
          /\ outcome' = Ended("returned", "none")
          /\ pc' = "exited"
     ELSE IF ~apiKey
     THEN /\ outbox' = Said(Said(outbox, 1, "progress"), 1, "config_error")
          /\ outcome' = Ended("exit1", "SystemExit")
          /\ pc' = "exited"
     ELSE /\ outbox' = Said(outbox, 1, "progress")
          /\ pc' = "open"
          /\ UNCHANGED outcome
  /\ UNCHANGED <<frontend, admins, apiKey, exc, conns, sessions, requests,
                 result, extractArg, pureVars>>

\* main of jc.py up to the transport: the parsed command, then require_env
JcMain(cmd, given) ==
  /\ frontend = "jc" /\ pc = "idle" /\ query = 0
  /\ query' = 1
  /\ inputs' = Append(inputs, [user |-> "", text |-> "show users", command |-> cmd,
                                given |-> given,
                                args |-> ParseArgs(cmd, given, "show users")])
  /\ IF ~apiKey
     THEN /\ outbox' = Said(outbox, 1, "config_error")
          /\ outcome' = Ended("exit1", "SystemExit")
          /\ pc' = "exited"
     ELSE /\ pc' = "open"
          /\ UNCHANGED <<outbox, outcome>>
  /\ UNCHANGED <<frontend, admins, apiKey, exc, conns, sessions, requests,
                 result, extractArg, pureVars>>

\* async with streamablehttp_client(...): the connection opens, or it raises
OpenTransport(ok) ==
  /\ pc = "open"
  /\ IF ok
     THEN /\ conns' = Append(conns, [owner |-> query, st |-> "open"])
          /\ pc' = "enter"
          /\ UNCHANGED exc
     ELSE /\ conns' = Append(conns, [owner |-> query, st |-> "failed"])
          /\ exc' = "ConnectError"
          /\ pc' = Unwind("open")
  /\ UNCHANGED <<frontend, admins, apiKey, query, inputs, sessions, requests,
                 result, extractArg, outbox, outcome, pureVars>>

\* async with ClientSession(read, write) as session
EnterSession ==
  /\ pc = "enter"
  /\ sessions' = Append(sessions, [owner |-> query, st |-> "open", init |-> FALSE])
  /\ pc' = "init"
  /\ UNCHANGED <<frontend, admins, apiKey, query, inputs, exc, conns, requests,
                 result, extractArg, outbox, outcome, pureVars>>

\* a handshake whose failure is passed over
InitializeIgnored(ok) ==
  /\ pc = "init"
  /\ sessions' = [sessions EXCEPT ![Len(sessions)].init = ok]
  /\ pc' = "call"
  /\ UNCHANGED <<frontend, admins, apiKey, query, inputs, exc, conns, requests,
                 result, extractArg, outbox, outcome, pureVars>>

\* await session.initialize(): the handshake completes, or it raises
Initialize(ok) ==
  /\ pc = "init"
  /\ IF ok
     THEN /\ sessions' = [sessions EXCEPT ![CurrentSession].init = TRUE]
          /\ pc' = "call"
          /\ UNCHANGED exc
     ELSE /\ exc' = "HandshakeError"
          /\ pc' = Unwind("init")
          /\ UNCHANGED sessions
  /\ UNCHANGED <<frontend, admins, apiKey, query, inputs, conns, requests,
                 result, extractArg, outbox, outcome, pureVars>>

\* await session.call_tool(...) or session.list_tools(): the one request of the
\* command; jc.py prints what it got before the session closes
CallTool(ok, r) ==
  /\ pc = "call"
  /\ requests' = Append(requests, [sess |-> CurrentSession, query |-> query,
                                   kind |-> RequestOf(Cmd).kind,
                                   tool |-> RequestOf(Cmd).tool,
                                   arguments |-> ArgumentsOf(Cmd, inputs[query].args)])
  /\ IF ok
     THEN /\ result' = IF RequestOf(Cmd).kind = "call_tool" THEN r ELSE result
          /\ outbox' = IF frontend = "jc"
                       THEN IF Cmd = "tools" THEN Said(outbox, query, "tools")
                            ELSE SaidText(outbox, query, "answer", ModelDumpJson(r))
                       ELSE outbox
          /\ pc' = "exit_session"
          /\ UNCHANGED exc
     ELSE /\ exc' = "ToolError"
          /\ pc' = Unwind("call")
          /\ UNCHANGED <<result, outbox>>
  /\ UNCHANGED <<frontend, admins, apiKey, query, inputs, conns, sessions,
                 extractArg, outcome, pureVars>>

\* Ctrl+C while a CLI awaits: asyncio.run cancels the task, the cancellation is
\* raised at the await and KeyboardInterrupt leaves asyncio.run; at the call the
\* request may have been sent already
Cancel(sent) ==
  /\ frontend \in CliFrontEnds
  /\ pc \in {"open", "enter", "init", "call"}
  /\ sent => pc = "call"
  /\ requests' = IF sent
                 THEN Append(requests, [sess |-> CurrentSession, query |-> query,
                                        kind |-> RequestOf(Cmd).kind,
                                        tool |-> RequestOf(Cmd).tool,
                                        arguments |-> ArgumentsOf(Cmd, inputs[query].args)])
                 ELSE requests
  /\ exc' = "KeyboardInterrupt"
  /\ pc' = Unwind(pc)
  /\ UNCHANGED <<frontend, admins, apiKey, query, inputs, conns, sessions,
                 result, extractArg, outbox, outcome, pureVars>>

\* ClientSession.__aexit__
ExitSession ==
  /\ pc = "exit_session"
  /\ sessions' = [sessions EXCEPT ![CurrentSession].st = "closed"]
  /\ pc' = "exit_transport"
  /\ UNCHANGED <<frontend, admins, apiKey, query, inputs, exc, conns, requests,
                 result, extractArg, outbox, outcome, pureVars>>

\* streamablehttp_client.__aexit__
ExitTransport ==
  /\ pc = "exit_transport"
  /\ conns' = [conns EXCEPT ![Len(conns)].st = "closed"]
  /\ pc' = "invoked"
  /\ UNCHANGED <<frontend, admins, apiKey, query, inputs, exc, sessions, requests,
                 result, extractArg, outbox, outcome, pureVars>>

\* appv1.py after the call: the message m, or the error when formatting raised
RespondFormatted(m) ==
  /\ extractArg' = [given |-> TRUE, env |-> result]
  /\ outbox' = IF m.ok THEN SaidText(outbox, query, m.kind, m.text)
               ELSE Said(outbox, query, "error")
  /\ outcome' = Ended("returned", m.exc)

\* jc-cli.py after the call: the message m is printed, or the exception leaves main
PrintFormatted(m) ==
  /\ extractArg' = [given |-> TRUE, env |-> result]
  /\ outbox' = IF m.ok THEN SaidText(outbox, query, m.kind, m.text) ELSE outbox
  /\ outcome' = Ended(IF m.ok THEN "returned" ELSE "raised", m.exc)

\* the handler after asyncio.run returned the result
DeliverResult ==
  /\ pc = "invoked" /\ exc = "none"
  /\ CASE frontend = "appv1" -> RespondFormatted(FrontMessage("slack", UserQuery, result))
       [] frontend = "app" ->
            /\ outbox' = SaidText(outbox, query, "answer",
                                  AppAnswerText(UserQuery, AppRawJson(result)))
            /\ outcome' = Ended("returned", "none")
            /\ UNCHANGED extractArg
       [] frontend = "jc_cli" -> PrintFormatted(FrontMessage("cli", UserQuery, result))
       [] frontend = "jc" ->
            /\ outcome' = Ended("returned", "none")
            /\ UNCHANGED <<outbox, extractArg>>
  /\ pc' = EndPc
  /\ UNCHANGED <<frontend, admins, apiKey, query, inputs, exc, conns, sessions,
                 requests, result, pureVars>>

RetryFailure ==
  /\ pc = "invoked" /\ exc # "none"
  /\ exc' = "none"
  /\ pc' = "open"
  /\ UNCHANGED <<frontend, admins, apiKey, query, inputs, conns, sessions,
                 requests, result, extractArg, outbox, outcome, pureVars>>

\* the handler after asyncio.run raised: the bots catch Exception and respond
\* with the error, jc.py catches KeyboardInterrupt only, jc-cli.py catches nothing
DeliverFailure ==
  /\ pc = "invoked" /\ exc # "none"
  /\ CASE frontend \in ChatFrontEnds ->
            /\ outbox' = Said(outbox, query, "error")
            /\ outcome' = Ended("returned", exc)
       [] frontend = "jc_cli" ->
            /\ outcome' = Ended("raised", exc)
            /\ UNCHANGED outbox
       [] frontend = "jc" ->
            IF exc = "KeyboardInterrupt"
            THEN /\ outbox' = Said(outbox, query, "interrupted")
                 /\ outcome' = Ended("exit1", exc)
            ELSE /\ outcome' = Ended("raised", exc)
                 /\ UNCHANGED outbox
  /\ exc' = "none"
  /\ pc' = EndPc
  /\ UNCHANGED <<frontend, admins, apiKey, query, inputs, conns, sessions,
                 requests, result, extractArg, pureVars>>

Next ==
  \/ \E u \in UserIds, t \in QueryTexts : ChatCommand(u, t)
  \/ \E t \in QueryTexts, prompted \in BOOLEAN : JcCliMain(t, prompted)
  \/ \E c \in JcCommands, given \in BOOLEAN : JcMain(c, given)
  \/ \E ok \in BOOLEAN : OpenTransport(ok)
  \/ EnterSession
  \/ \E ok \in BOOLEAN : Initialize(ok)
  \/ \E ok \in BOOLEAN, r \in PipeEnvelopes : CallTool(ok, r)
  \/ \E sent \in BOOLEAN : Cancel(sent)
  \/ ExitSession
  \/ ExitTransport
  \/ DeliverResult
  \/ DeliverFailure

Spec == Init /\ [][Next]_vars

(***************************************************************************)
(* Claims about the session lifecycle and the front ends (Spec)            *)
(***************************************************************************)
InvokerPcs == {"open", "enter", "init", "call", "exit_session", "exit_transport"}

ConnsOf(q) == {i \in 1..Len(conns) : conns[i].owner = q}
SessionsOf(q) == {i \in 1..Len(sessions) : sessions[i].owner = q}
RequestsOn(i) == {j \in 1..Len(requests) : requests[j].sess = i}
RequestsBy(q) == {j \in 1..Len(requests) : requests[j].query = q}
CallsOn(i) == {j \in RequestsOn(i) : requests[j].kind = "call_tool"}
SaidTo(q, kinds) == {k \in 1..Len(outbox) : outbox[k].query = q /\ outbox[k].kind \in kinds}

AnswerKinds == {"answer", "fallback", "tools"}
ErrorKinds == {"error", "interrupted", "config_error"}
InvokerErrors == {"ConnectError", "HandshakeError", "ToolError"}

\* C1: whenever control is outside the invoker (asyncio.run has returned or
\* raised, or the query has ended), every session entered is closed and no
\* connection is open: after a successful call, a failed handshake, a failed
\* call and a cancellation alike.
Thm_C1_ClosedOnEveryExit ==
  pc \notin InvokerPcs
    => /\ \A i \in 1..Len(sessions) : sessions[i].st = "closed"
       /\ \A i \in 1..Len(conns) : conns[i].st # "open"

\* C1's case: a chat process at rest after one query whose call succeeded and one
\* whose handshake raised, each having entered a session.
Wit_C1_ClosedAfterSuccessAndFailure ==
  /\ pc = "idle" /\ Len(outcome) = 2
  /\ \E q1, q2 \in 1..2 :
       /\ outcome[q1].exc = "none" /\ SaidTo(q1, {"answer"}) # {}
       /\ \E i \in SessionsOf(q1) : sessions[i].init /\ sessions[i].st = "closed"
       /\ outcome[q2].exc = "HandshakeError"
       /\ \E i \in SessionsOf(q2) : ~sessions[i].init /\ sessions[i].st = "closed"

\* C2 as stated: once a query has left the invoker, every session it entered has
\* issued exactly one call-tool request.
Cex_C2_ExactlyOneCallPerSession ==
  pc \notin InvokerPcs
    => \A i \in 1..Len(sessions) : Cardinality(CallsOn(i)) = 1

\* C2 as amended: a session carries at most one request, sent by the query that
\* entered it, and a query enters at most one session; a query that got its
\* answer entered exactly one session and sent exactly one request on it, a
\* list-tools for the tools command and a call-tool for every other command.
Thm_C2_OneRequestPerSession ==
  /\ \A i \in 1..Len(sessions) :
       /\ Cardinality(RequestsOn(i)) <= 1
       /\ \A j \in RequestsOn(i) : requests[j].query = sessions[i].owner
  /\ \A q \in 1..query :
       /\ Cardinality(SessionsOf(q)) <= 1
       /\ SaidTo(q, AnswerKinds) # {}
            => /\ Cardinality(SessionsOf(q)) = 1
               /\ Cardinality(RequestsBy(q)) = 1
               /\ \A j \in RequestsBy(q) :
                    /\ requests[j].sess \in SessionsOf(q)
                    /\ requests[j].kind =
                         IF inputs[q].command = "tools" THEN "list_tools" ELSE "call_tool"

\* C2's case: the tools command of jc.py has ended, its session having carried
\* one list-tools request and no call-tool.
Wit_C2_ToolsCommandListsOnly ==
  /\ frontend = "jc" /\ pc = "exited" /\ query = 1
  /\ inputs[1].command = "tools"
  /\ SaidTo(1, {"tools"}) # {}
  /\ \E i \in SessionsOf(1) :
       /\ Cardinality(RequestsOn(i)) = 1
       /\ CallsOn(i) = {}

\* C3: no retry: a query makes at most one connection attempt, enters at most
\* one session and sends at most one request, and a query whose connection,
\* handshake or call failed has ended without an answer.
Thm_C3_NoRetry ==
  \A q \in 1..query :
    /\ Cardinality(ConnsOf(q)) <= 1
    /\ Cardinality(SessionsOf(q)) <= 1
    /\ Cardinality(RequestsBy(q)) <= 1
    /\ (q <= Len(outcome) /\ outcome[q].exc \in InvokerErrors)
         => SaidTo(q, AnswerKinds) = {}

\* C3's case: a chat query whose connection failed has ended with the error
\* message, after its single attempt.
Wit_C3_FailedOnce ==
  /\ frontend \in ChatFrontEnds /\ pc = "idle" /\ Len(outcome) >= 1
  /\ outcome[1].exc = "ConnectError"
  /\ Cardinality(ConnsOf(1)) = 1
  /\ SaidTo(1, {"error"}) # {}

\* C4: an envelope whose isError flag is set is never returned by the invoker
\* as a normal result and never handed to the extractor.
Cex_C4_IsErrorSignalled ==
  /\ (pc = "invoked" /\ exc = "none") => ~result.isError
  /\ extractArg.given => ~extractArg.env.isError

\* C5: no failure of a query leaves the entry point of its front end as an
\* exception, and a failed query gets exactly one error message.
Cex_C5_FailuresCaught ==
  \A q \in 1..Len(outcome) :
    /\ outcome[q].how # "raised"
    /\ outcome[q].exc # "none" => Cardinality(SaidTo(q, ErrorKinds)) = 1

\* C6: a chat command whose user id is missing or not in the allowlist opens no
\* connection, enters no session and sends no request, and the one message it
\* gets is the denial.
Thm_C6_AuthorizationFirst ==
  \A q \in 1..query :
    (frontend \in ChatFrontEnds /\ (inputs[q].user = "" \/ inputs[q].user \notin admins))
      => /\ ConnsOf(q) = {} /\ SessionsOf(q) = {} /\ RequestsBy(q) = {}
         /\ Cardinality(SaidTo(q, {"denial"})) = 1
         /\ \A k \in 1..Len(outbox) : outbox[k].query = q => outbox[k].kind = "denial"

\* C6's case: with U1 allowed, a command of U2 was denied and a command of U1
\* went through the invoker and was answered.
Wit_C6_DeniedBesideAnswered ==
  /\ frontend \in ChatFrontEnds /\ admins = {"U1"} /\ pc = "idle" /\ Len(outcome) = 2
  /\ \E q1, q2 \in 1..2 :
       /\ inputs[q1].user = "U2" /\ SaidTo(q1, {"denial"}) # {}
       /\ inputs[q2].user = "U1" /\ SaidTo(q2, {"answer"}) # {} /\ SessionsOf(q2) # {}

\* the tools and their argument names as documented
DocumentedKeys(tool) ==
  CASE tool = "search_api" -> {"query"}
    [] tool = "users_list" -> {"limit", "skip", "searchTerm"}
    [] tool \in {"user_get", "application_get", "device_get", "command_get", "policy_get"} ->
         {"id"}
    [] tool \in {"user_groups_list", "device_groups_list"} ->
         {"limit", "skip", "search", "disabled"}
    [] tool \in {"user_group_membership", "device_group_membership"} ->
         {"group_id", "limit", "skip"}
    [] tool \in {"applications_list", "devices_list", "policies_list", "admins_list"} ->
         {"limit", "skip", "search"}
    [] tool \in {"commands_list", "commandresults_list", "softwareapp_list"} ->
         {"limit", "skip"}
    [] tool \in {"command_devices_list", "command_device_groups_list",
                 "command_result_list"} -> {"id", "limit", "skip"}
    [] tool = "di_events_get" ->
         {"limit", "service", "event_type", "initiator_id", "query", "exact_match",
          "start_time"}
    [] OTHER -> {"undocumented tool"}

\* what an argument of a tool is by default; the caller must give the others
HasDefault(tool, key) == key \notin {"id", "group_id"} /\ tool # "search_api"
StatedDefault(tool, key) ==
  CASE key = "limit" -> PyInt(IF tool = "di_events_get" THEN 50 ELSE 10)
    [] key = "skip" -> PyInt(0)
    [] key = "disabled" -> PyBool(FALSE)
    [] key = "service" -> PyStr("all")
    [] key = "start_time" -> PyStr("7d")
    [] OTHER -> PyStr("")

ArgumentKeys(a) == {a[i].k.v : i \in 1..Len(a)}

\* C15: every call-tool request carries exactly the argument names documented
\* for its tool, each once and with a value, and an argument whose option the
\* caller left out carries its default.
Thm_C15_CatalogArguments ==
  \A j \in 1..Len(requests) :
    requests[j].kind = "call_tool"
      => LET a == requests[j].arguments
             tool == requests[j].tool
         IN /\ ArgumentKeys(a) = DocumentedKeys(tool)
            /\ Len(a) = Cardinality(DocumentedKeys(tool))
            /\ \A i \in 1..Len(a) : a[i].v # None
            /\ ~inputs[requests[j].query].given
                 => \A i \in 1..Len(a) :
                      HasDefault(tool, a[i].k.v) => a[i].v = StatedDefault(tool, a[i].k.v)

\* C15's case: di-events run without any option sent its seven arguments
Wit_C15_DiEventsDefaults ==
  /\ frontend = "jc" /\ query = 1 /\ inputs[1].command = "di-events" /\ ~inputs[1].given
  /\ \E j \in 1..Len(requests) :
       /\ requests[j].tool = "di_events_get"
       /\ Len(requests[j].arguments) = 7
       /\ PairsGet(requests[j].arguments, K("limit"), None) = PyInt(50)

\* C16: every request, call-tool or list-tools, was sent on a session of its own
\* query whose handshake had completed, and a query whose handshake has not
\* completed, or failed, has sent no request.
Thm_C16_HandshakeFirst ==
  /\ \A j \in 1..Len(requests) :
       /\ requests[j].sess \in 1..Len(sessions)
       /\ sessions[requests[j].sess].init
       /\ sessions[requests[j].sess].owner = requests[j].query
  /\ \A k \in 1..Len(sessions) :
       ~sessions[k].init => \A j \in 1..Len(requests) : requests[j].query # sessions[k].owner

\* C16's case: the handshake of the second query failed after the first query
\* sent its request, and the second query sent none
Wit_C16_FailedHandshake ==
  /\ query = 2 /\ exc = "HandshakeError" /\ pc \notin {"open", "enter", "init", "call"}
  /\ Len(sessions) = 2 /\ sessions[1].init /\ ~sessions[2].init
  /\ \E j \in 1..Len(requests) : requests[j].query = 1
  /\ \A j \in 1..Len(requests) : requests[j].query # 2

\* C14: no answer a chat front end delivers, formatted or raw dump, is longer
\* than the chat budget of 2800 characters.
Cex_C14_ChatBudget ==
  frontend \in ChatFrontEnds
    => \A k \in 1..Len(outbox) :
         outbox[k].kind \in {"answer", "fallback"} => Len(outbox[k].text) <= 2800

(***************************************************************************)
(* Claims about the extractor (SpecExtract) and the formatter (SpecFormat) *)
(***************************************************************************)
\* whether a content item's text is a str that parses as JSON to a mapping
ParsesToMapping(item) ==
  /\ IsStr(item.text)
  /\ JsonLoads(item.text.v).ok
  /\ IsDict(JsonLoads(item.text.v).val)

\* whether the envelope's content is a list of items
HasItemList(r) == r.content.t = "items"

\* the index of the first item of a list that parses to a mapping, 0 if none
FirstMapping(items) ==
  IF \E i \in 1..Len(items) : ParsesToMapping(items[i])
  THEN CHOOSE i \in 1..Len(items) :
         /\ ParsesToMapping(items[i])
         /\ \A j \in 1..(i - 1) : ~ParsesToMapping(items[j])
  ELSE 0

\* C7: for an envelope whose structuredContent is a mapping, extract returns
\* that mapping unchanged and looks at no content item, whatever content holds.
Thm_C7_StructuredWins ==
  (ExtractRan /\ IsDict(env.structuredContent))
    => /\ extractOut.ok
       /\ extractOut.val = env.structuredContent
       /\ extractOut.examined = 0

\* C7's case: a mapping structuredContent beside a content item whose text
\* parses to a different JSON object.
Wit_C7_StructuredBesideParsableContent ==
  /\ ExtractRan
  /\ IsDict(env.structuredContent)
  /\ HasItemList(env)
  /\ \E i \in 1..Len(env.content.v) :
       /\ ParsesToMapping(env.content.v[i])
       /\ JsonLoads(env.content.v[i].text.v).val # env.structuredContent

\* C8: with no mapping structuredContent and a content list holding an item whose
\* text parses to a mapping, extract returns the mapping of the first such item in
\* list order; the items before it (no text, a text that is no str, a text that
\* fails to parse, a text that parses to a non-mapping) are passed over, and no
\* item after it is looked at.
Thm_C8_FirstParsableItem ==
  (/\ ExtractRan
   /\ ~IsDict(env.structuredContent)
   /\ HasItemList(env)
   /\ FirstMapping(env.content.v) # 0)
    => LET i == FirstMapping(env.content.v)
       IN /\ extractOut.ok
          /\ extractOut.val = JsonLoads(env.content.v[i].text.v).val
          /\ extractOut.examined = i

\* C8's case: the first parsable item comes after an item whose text fails to
\* parse and is followed by another parsable item holding a different object.
Wit_C8_SkipsThenStops ==
  /\ ExtractRan
  /\ ~IsDict(env.structuredContent)
  /\ HasItemList(env)
  /\ Len(env.content.v) = 3
  /\ IsStr(env.content.v[1].text) /\ ~JsonLoads(env.content.v[1].text.v).ok
  /\ ParsesToMapping(env.content.v[2])
  /\ ParsesToMapping(env.content.v[3])
  /\ env.content.v[3] # env.content.v[2]
  /\ extractOut.examined = 2

Cex_C10_FormatTotal ==
  FormatRan => (formatOut.ok /\ IsStr(formatOut.val))

(***************************************************************************)
(* Claims about the formatter's results section (SpecFormat)               *)
(***************************************************************************)
\* the lines of a text, cut at each newline
NewlinesFrom(s, start) == {i \in start..Len(s) : Ch(s, i) = "\n"}
FirstNewline(s, start) ==
  CHOOSE i \in NewlinesFrom(s, start) : \A j \in NewlinesFrom(s, start) : i <= j
RECURSIVE SplitFrom(_, _, _)
SplitFrom(s, start, acc) ==
  IF NewlinesFrom(s, start) = {} THEN Append(acc, SubSeq(s, start, Len(s)))
  ELSE SplitFrom(s, FirstNewline(s, start) + 1,
                 Append(acc, SubSeq(s, start, FirstNewline(s, start) - 1)))
SplitLines(s) == SplitFrom(s, 1, <<>>)

\* query_result.results of a payload as the formatter reads it
ResultsOf(inner) ==
  LET q == PyOr(PairsGet(inner.v, K("query_result"), PyDict(<<>>)), PyDict(<<>>))
  IN IF IsDict(q) THEN PyOr(PairsGet(q.v, K("results"), PyList(<<>>)), PyList(<<>>))
     ELSE PyList(<<>>)

IsRowLine(l) == StartsWith(l, 1, "@ ") \/ StartsWith(l, 1, " - ")
IsNoteLine(l) == StartsWith(l, 1, "_^ plus ") \/ StartsWith(l, 1, "... plus ")
IsHeaderLine(l) == StartsWith(l, 1, "*Results* (") \/ StartsWith(l, 1, "Results (")
IsNoResultsLine(l) == l = "_No results found._" \/ l = "No results found."

OutLines == SplitLines(formatOut.val.v)
Formatted_ok == FormatRan /\ formatOut.ok
RowsGiven == ResultsOf(payload).v
NoteText(n) ==
  IF style = "slack" THEN "_^ plus " \o ToString(n) \o " more results_"
  ELSE "... plus " \o ToString(n) \o " more"

\* C11: a formatted list of n >= 1 rows has min(n, 20) row lines, the lines of
\* its first rows in the order received; with n > 20 the text ends with one
\* note saying n - 20 more, and with n <= 20 it has no note.
Thm_C11_RowCap ==
  (Formatted_ok /\ ResultsOf(payload).t = "list" /\ RowsGiven # <<>>)
    => LET n == Len(RowsGiven)
           rowLines == SelectSeq(OutLines, IsRowLine)
           notes == SelectSeq(OutLines, IsNoteLine)
       IN /\ Len(rowLines) = (IF n > 20 THEN 20 ELSE n)
          /\ \A i \in 1..Len(rowLines) : rowLines[i] = RenderRow(style, RowsGiven[i]).val.v
          /\ IF n > 20
             THEN /\ notes = <<NoteText(n - 20)>>
                  /\ OutLines[Len(OutLines)] = NoteText(n - 20)
             ELSE notes = <<>>

\* C11's case: 22 differing rows were formatted into 20 row lines and the note
Wit_C11_TwentyTwoRows ==
  /\ Formatted_ok /\ Len(RowsGiven) = 22
  /\ Len(SelectSeq(OutLines, IsRowLine)) = 20
  /\ OutLines[Len(OutLines)] = NoteText(2)

\* what the payload gives for query_result and for its results, Absent for a
\* missing key
QueryResultGiven == PairsGet(payload.v, K("query_result"), Absent)
ResultsGiven ==
  IF IsDict(QueryResultGiven) THEN PairsGet(QueryResultGiven.v, K("results"), Absent)
  ELSE Absent
MetadataGiven ==
  IF IsDict(QueryResultGiven) THEN PairsGet(QueryResultGiven.v, K("metadata"), Absent)
  ELSE Absent
QueryTimeGiven ==
  IF IsDict(MetadataGiven) THEN PairsGet(MetadataGiven.v, K("queryTime"), None) ELSE None
NoRowsGiven ==
  /\ QueryResultGiven \in {Absent, None} \/ IsDict(QueryResultGiven)
  /\ ResultsGiven \in {Absent, None, PyList(<<>>)}

\* the lines of the sections before the results section, read off the payload
SectionLines ==
  LET e == PairsGet(payload.v, K("explanation"), None)
      r == PairsGet(payload.v, K("rationale"), None)
  IN (IF Truthy(e)
      THEN <<IF style = "slack" THEN "*Explanation:*" ELSE "Explanation:", Str(e), "">>
      ELSE <<>>)
     \o (IF Truthy(r)
         THEN <<(IF style = "slack" THEN "*Why this query:* " ELSE "Why this query: ")
                  \o Str(r), "">>
         ELSE <<>>)
     \o (IF QueryTimeGiven # None
         THEN <<IF style = "slack" THEN "_Query time_: %" \o Str(QueryTimeGiven) \o "%"
                ELSE "Query time: " \o Str(QueryTimeGiven), "">>
         ELSE <<>>)

\* C18: for a payload whose query_result is missing or null, or whose results
\* are missing, null or an empty list, format returns the lines of the sections
\* present (explanation, rationale, query time) and then the no-results line as
\* its last line: one no-results line, no results header, no row line, no note.
Thm_C18_NoResults ==
  (FormatRan /\ NoRowsGiven)
    => /\ formatOut.ok /\ IsStr(formatOut.val)
       /\ OutLines = Append(SectionLines,
                            IF style = "slack" THEN "_No results found._"
                            ELSE "No results found.")
       /\ Cardinality({i \in 1..Len(OutLines) : IsNoResultsLine(OutLines[i])}) = 1
       /\ \A i \in 1..Len(OutLines) :
            ~IsHeaderLine(OutLines[i]) /\ ~IsRowLine(OutLines[i]) /\ ~IsNoteLine(OutLines[i])

\* C18's case: a payload with an explanation, a query time and an empty list
\* of results was formatted, and the no-results line came after the sections
Wit_C18_EmptyList ==
  /\ Formatted_ok /\ ResultsGiven = PyList(<<>>)
  /\ Truthy(PairsGet(payload.v, K("explanation"), None)) /\ QueryTimeGiven # None
  /\ Len(OutLines) > 1 /\ IsNoResultsLine(OutLines[Len(OutLines)])

\* the field entries of a row as received, and what they say of one field name
FieldsOf(row) ==
  LET fl == PyOr(PairsGet(row.v, K("fields"), PyList(<<>>)), PyList(<<>>)) IN fl.v
NameOf(f) == PairsGet(f.v, K("field"), None)
ValueOf(f) == PairsGet(f.v, K("value"), None)
Occurrences(row, nm) == {i \in 1..Len(FieldsOf(row)) : NameOf(FieldsOf(row)[i]) = PyStr(nm)}
LastOccurrence(row, nm) ==
  CHOOSE i \in Occurrences(row, nm) : \A j \in Occurrences(row, nm) : j <= i
Named(row) ==
  {NameOf(FieldsOf(row)[i]).v : i \in {j \in 1..Len(FieldsOf(row)) :
                                         Truthy(NameOf(FieldsOf(row)[j]))}}
IdentityKeys == {"user.username", "user.email", "user.id"}
HoldsIdentityKey(row) == \E nm \in IdentityKeys : Occurrences(row, nm) # {}
HoldsIdentityValue(row) ==
  \E nm \in IdentityKeys :
    /\ Occurrences(row, nm) # {}
    /\ Truthy(ValueOf(FieldsOf(row)[LastOccurrence(row, nm)]))

\* how a line shows which renderer wrote it: the generic line names every field
\* of the row, the identity line names none and has at least one part
Contains(l, w) == \E i \in 1..Len(l) : StartsWith(l, i, w)
KeyMark(nm) == IF style = "slack" THEN "*" \o nm \o "*: %" ELSE nm \o "="
BarePrefix == IF style = "slack" THEN "@ " ELSE " - "
IsGenericLineOf(l, row) == \A nm \in Named(row) : Contains(l, KeyMark(nm))
IsIdentityLineOf(l, row) ==
  /\ l # BarePrefix
  /\ \A nm \in Named(row) : ~Contains(l, KeyMark(nm))
RowLines == SelectSeq(OutLines, IsRowLine)
ListGiven == ResultsOf(payload).t = "list" /\ RowsGiven # <<>>

\* C12 as stated: a rendered row has the identity line exactly when its fields
\* carry user.username, user.email or user.id, whatever the value, and the
\* generic line otherwise.
Cex_C12_IdentityByPresence ==
  (Formatted_ok /\ ListGiven)
    => \A i \in 1..Len(RowLines) :
         IF HoldsIdentityKey(RowsGiven[i])
         THEN IsIdentityLineOf(RowLines[i], RowsGiven[i])
         ELSE IsGenericLineOf(RowLines[i], RowsGiven[i])

\* C12 as amended: a rendered row has the identity line exactly when one of
\* user.username, user.email, user.id holds a value that is neither null nor
\* empty, and the generic line otherwise; a formatting that raised did so on
\* a row that went to the identity renderer.
Thm_C12_IdentityByValue ==
  /\ (Formatted_ok /\ ListGiven)
       => \A i \in 1..Len(RowLines) :
            IF HoldsIdentityValue(RowsGiven[i])
            THEN IsIdentityLineOf(RowLines[i], RowsGiven[i])
            ELSE /\ IsGenericLineOf(RowLines[i], RowsGiven[i])
                 /\ ~IsIdentityLineOf(RowLines[i], RowsGiven[i])
  /\ (FormatRan /\ ~formatOut.ok /\ ListGiven)
       => \E i \in 1..Len(RowsGiven) : HoldsIdentityValue(RowsGiven[i])

\* C12's case: a row whose user.email is null, beside another field, was
\* rendered with the generic line
Wit_C12_NullEmailIsGeneric ==
  /\ Formatted_ok /\ ListGiven /\ Len(RowsGiven) = 1
  /\ Occurrences(RowsGiven[1], "user.email") # {}
  /\ Occurrences(RowsGiven[1], "device.name") # {}
  /\ ValueOf(FieldsOf(RowsGiven[1])[LastOccurrence(RowsGiven[1], "user.email")]) = None
  /\ Contains(RowLines[1], KeyMark("user.email"))

\* the places of a row's fields list where a non-empty field name occurs for
\* the first time, in the order of the list
FirstPlaces(row) ==
  SelectSeq([i \in 1..Len(FieldsOf(row)) |-> i],
            LAMBDA i : /\ Truthy(NameOf(FieldsOf(row)[i]))
                       /\ \A j \in 1..(i - 1) :
                            NameOf(FieldsOf(row)[j]) # NameOf(FieldsOf(row)[i]))
LastValue(row, nm) == ValueOf(FieldsOf(row)[LastOccurrence(row, nm)])
EntryText(nm, x) ==
  IF style = "slack" THEN "*" \o nm \o "*: %" \o Str(x) \o "%" ELSE nm \o "=" \o Str(x)
GenericLineOf(row) ==
  BarePrefix
    \o Join([k \in 1..Len(FirstPlaces(row)) |->
               EntryText(NameOf(FieldsOf(row)[FirstPlaces(row)[k]]).v,
                         LastValue(row, NameOf(FieldsOf(row)[FirstPlaces(row)[k]]).v))],
            "; ")

\* C19: the generic line of a row has one entry per distinct non-empty field
\* name, in the order in which the names first occur in the row's fields list,
\* each with the value of the last occurrence of its name; a field without a
\* name, or with an empty one, gives no entry.
Thm_C19_LastWriteWins ==
  (Formatted_ok /\ ListGiven)
    => \A i \in 1..Len(RowLines) :
         ~HoldsIdentityValue(RowsGiven[i]) => RowLines[i] = GenericLineOf(RowsGiven[i])

\* C19's case: a row naming device.name, device.os and device.name again was
\* rendered with device.name first, holding its last value
Wit_C19_RepeatedName ==
  /\ Formatted_ok /\ ListGiven /\ Len(RowsGiven) = 1
  /\ Len(FieldsOf(RowsGiven[1])) = 3
  /\ Occurrences(RowsGiven[1], "device.name") = {1, 3}
  /\ RowLines[1] = BarePrefix \o EntryText("device.name", PyStr("v3")) \o "; "
                     \o EntryText("device.os", PyStr("v2"))

(***************************************************************************)
(* Claims about the size bounder (SpecBound)                               *)
(***************************************************************************)
\* C13: a text no longer than the budget is returned unchanged; a longer one
\* comes back as its first max characters followed by the truncation marker,
\* so the result is never longer than the budget plus the marker.
Thm_C13_Bound ==
  boundOut.ran
    => LET t == boundIn.text
           m == boundIn.max
           o == boundOut.text
       IN /\ Len(o) <= m + Len(TruncationMarker)
          /\ Len(t) <= m => o = t
          /\ Len(t) > m
               => /\ Len(o) = m + Len(TruncationMarker)
                  /\ \A i \in 1..m : Ch(o, i) = Ch(t, i)
                  /\ SubSeq(o, m + 1, Len(o)) = "\n... (truncated)"

\* C13's case: an 11-character text was bounded to 10
Wit_C13_ElevenToTen ==
  /\ boundOut.ran /\ boundIn.max = 10 /\ boundIn.text = "01234567890"
  /\ boundOut.text = "0123456789\n... (truncated)"

(***************************************************************************)
(* Claims about cut answers (Spec)                                         *)
(***************************************************************************)
\* the dump a chat front end puts in its message when it shows raw data
DumpShown(fe, r) == IF fe = "app" THEN AppRawJson(r) ELSE ModelDumpJson(r)
ShowsDump(fe, kind) == (fe = "app" /\ kind = "answer") \/ (fe = "appv1" /\ kind = "fallback")

\* the message holds a proper prefix of raw with the truncation marker right after it
MarkedCut(text, raw) ==
  \E p \in 2..Len(text) :
    /\ StartsWith(text, p, TruncationMarker)
    /\ \E n \in 1..Min(p - 1, Len(raw) - 1) : SubSeq(text, p - n, p - 1) = SubSeq(raw, 1, n)

\* C17: a chat message that shows the dump of the result holds the whole dump,
\* or the part it holds is followed directly by the truncation marker.
Cex_C17_CutIsMarked ==
  frontend \in ChatFrontEnds
    => \A k \in 1..Len(outbox) :
         (outbox[k].query = query /\ ShowsDump(frontend, outbox[k].kind))
           => \/ Contains(outbox[k].text, DumpShown(frontend, result))
              \/ MarkedCut(outbox[k].text, DumpShown(frontend, result))

====
